---- MODULE Spec2Model ----
(***************************************************************************)
(* A model of sample/main.py: fibonacci, find_primes, process_users and    *)
(* the driver main.  Every loop iteration of the source is one step.  A    *)
(* behaviour is one top-level call: either main() with its literal inputs, *)
(* or one of the three functions called on an argument drawn from a        *)
(* bounded set.                                                            *)
(*                                                                         *)
(* Python objects that can be aliased (the user dicts) live in `heap`, a   *)
(* sequence of dicts indexed by object identity; lists of dicts are        *)
(* sequences of identities.  A dict is a function from its keys.           *)
(***************************************************************************)
EXTENDS Integers, Sequences, FiniteSets, TLC

\* ---------------------------------------------------------------- bounds
\* fibonacci is called with n in -NegN .. MaxN
MaxN == 12
NegN == 3
\* find_primes is called with limit in -NegLimit .. MaxLimit
MaxLimit == 30
NegLimit == 2
\* process_users is called with lists of at most MaxUsers records
MaxUsers == 2

\* ------------------------------------------------------ program constants
MainFibN == 10
MainLimit == 30
SeniorAge == 60
AdultAge == 18

\* ------------------------------------------------------------ input sets
Names == {"Alice", "Bob"}
Ages == {-3, 0, 17, 18, 59, 60, 65}

\* Dicts handed to process_users: well-formed ones, ones lacking a key, and
\* one carrying an extra key.
WellFormed == [name : Names, age : Ages]
UserRecords ==
    WellFormed
      \cup [age : Ages]
      \cup [name : Names]
      \cup {[email |-> "x"], [name |-> "Bob", age |-> 17, email |-> "x"]}

UserLists == UNION {[1..k -> UserRecords] : k \in 0..MaxUsers}

\* The literal with Bob's age left out.
MainUsersNoAge ==
    << [name |-> "Alice", age |-> 30],
       [name |-> "Bob"],
       [name |-> "Charlie", age |-> 65] >>

\* The literal of main, lines 50-54.
MainUsers ==
    << [name |-> "Alice", age |-> 30],
       [name |-> "Bob", age |-> 17],
       [name |-> "Charlie", age |-> 65] >>

Entries == {"main", "fibonacci", "find_primes", "process_users"}

VARIABLES
    entry,      \* the top-level call of this run
    pc,         \* position in the code
    err,        \* "none", or the key of the KeyError that ended the run
    retFn,      \* the function that returned last ("none" before any return)
    ret,        \* the value it returned
    heap,       \* the dicts allocated so far, by identity
    heap0,      \* the heap as it was when process_users was entered
    users0,     \* the list process_users was given, as it was on entry
    n, sequence, a, b, fib_i,            \* fibonacci
    limit, primes, num, is_prime, div_i, \* find_primes
    users, results, idx,                 \* process_users
    m_fib, m_primes, m_users, processed, print_i, total, \* main
    out         \* the lines written to standard output

fibVars == <<n, sequence, a, b, fib_i>>
primeVars == <<limit, primes, num, is_prime, div_i>>
userVars == <<users, results, idx>>
mainVars == <<m_fib, m_primes, m_users, processed, print_i, total>>
ctlVars == <<entry, err>>
vars == <<entry, pc, err, retFn, ret, heap, heap0, users0, fibVars, primeVars,
          userVars, mainVars, out>>

\* ------------------------------------------------------------- helpers
\* range(abs(n)) in place of range(n)
RangeLenAbs(k) == IF k > 0 THEN k ELSE -k

\* len(range(n)): range(n) is empty for n <= 0.
RangeLen(k) == IF k > 0 THEN k ELSE 0

\* int(num ** 0.5) for num >= 0: the float square root truncated.  The float
\* result is exact on perfect squares and within one ulp elsewhere for every
\* num below 2^52, so the truncation is the floor of the real square root.
IntSqrt(k) == CHOOSE r \in 0..k : r * r <= k /\ (r + 1) * (r + 1) > k

\* range(2, int(num**0.5)): the "+ 1" forgotten
TrialStopShort(k) == IntSqrt(k)

\* The exclusive stop of range(2, int(num**0.5) + 1).
TrialStop(k) == IntSqrt(k) + 1

\* a = b; b = a + b, one after the other
FibNextSequential(x, y) == <<y, y + y>>

\* a, b = b, a + b
FibNext(x, y) == <<y, x + y>>

\* the brackets with > in place of >=
StatusStrict(age) ==
    IF age > SeniorAge THEN "senior"
    ELSE IF age > AdultAge THEN "adult"
    ELSE "minor"

\* "senior" if age >= 60 else "adult" if age >= 18 else "minor"
Status(age) ==
    IF age >= SeniorAge THEN "senior"
    ELSE IF age >= AdultAge THEN "adult"
    ELSE "minor"

\* user.get(key, default): a missing key silently defaulted
LookupDefault(d, key) ==
    IF key \in DOMAIN d THEN [ok |-> TRUE, val |-> d[key]]
    ELSE [ok |-> TRUE, val |-> IF key = "age" THEN 0 ELSE ""]

\* user[key]: the value, or KeyError(key)
Lookup(d, key) ==
    IF key \in DOMAIN d THEN [ok |-> TRUE, val |-> d[key]]
    ELSE [ok |-> FALSE, key |-> key]

\* user["status"] = status; the input dict itself goes into the results
NewRecordInPlace(h, uid, name, age, status) ==
    [heap |-> [h EXCEPT ![uid] = [k \in DOMAIN h[uid] \cup {"status"} |->
                                    IF k = "status" THEN status ELSE h[uid][k]]],
     id |-> uid]

\* {"name": name, "age": age, "status": status}: a new dict, with its identity
NewRecord(h, uid, name, age, status) ==
    [heap |-> Append(h, [name |-> name, age |-> age, status |-> status]),
     id |-> Len(h) + 1]

\* results.insert(0, x)
PrependResult(rs, x) == <<x>> \o rs

\* results.append(x)
AppendResult(rs, x) == Append(rs, x)

\* the builtin sum over a list of integers
RECURSIVE Sum(_)
Sum(s) == IF s = <<>> THEN 0 ELSE s[1] + Sum(Tail(s))

\* sum(fib) + sum(fib)
TotalFibTwice(f, p) == Sum(f) + Sum(f)

\* sum(fib) + sum(primes)
Total(f, p) == Sum(f) + Sum(p)

\* The printed lines, as a label and the value formatted after it.
FibLine(f) == [label |-> "Fibonacci(10): ", text |-> f]
PrimesLine(p) == [label |-> "Primes up to 30: ", text |-> p]
UserLineSwapped(u) == [label |-> "  ", text |-> <<u["status"], u["name"]>>]
UserLine(u) == [label |-> "  ", text |-> <<u["name"], u["status"]>>]
TotalLine(t) == [label |-> "Total: ", text |-> t]

\* ----------------------------------------------------------------- Init
Init ==
    /\ entry \in Entries
    /\ pc = "start"
    /\ err = "none"
    /\ retFn = "none"
    /\ ret = <<>>
    /\ n \in IF entry = "fibonacci" THEN -NegN..MaxN ELSE {0}
    /\ limit \in IF entry = "find_primes" THEN -NegLimit..MaxLimit ELSE {0}
    /\ heap \in IF entry = "process_users" THEN UserLists ELSE {<<>>}
    /\ users = [k \in 1..Len(heap) |-> k]
    /\ heap0 = <<>>
    /\ users0 = <<>>
    /\ sequence = <<>> /\ a = 0 /\ b = 0 /\ fib_i = 0
    /\ primes = <<>> /\ num = 0 /\ is_prime = FALSE /\ div_i = 0
    /\ results = <<>> /\ idx = 0
    /\ m_fib = <<>> /\ m_primes = <<>> /\ m_users = <<>> /\ processed = <<>>
    /\ print_i = 0 /\ total = 0
    /\ out = <<>>

\* Where control goes when a function called at the top level, or by main,
\* returns.
After(cont) == IF entry = "main" THEN cont ELSE "done"

\* ------------------------------------------------------------ fibonacci
\* lines 7-8, entered from the harness or from main line 42
EnterFibonacci(arg) ==
    /\ n' = arg
    /\ sequence' = <<>>
    /\ a' = 0 /\ b' = 1
    /\ fib_i' = 0
    /\ pc' = "fib_loop"

CallFibonacci ==
    /\ pc = "start" /\ entry = "fibonacci"
    /\ EnterFibonacci(n)
    /\ UNCHANGED <<ctlVars, retFn, ret, heap, heap0, users0, primeVars, userVars,
                   mainVars, out>>

\* lines 9-11: one iteration of for i in range(n)
FibLoop ==
    /\ pc = "fib_loop"
    /\ fib_i < RangeLen(n)
    /\ sequence' = Append(sequence, a)
    /\ a' = FibNext(a, b)[1]
    /\ b' = FibNext(a, b)[2]
    /\ fib_i' = fib_i + 1
    /\ UNCHANGED <<ctlVars, pc, retFn, ret, heap, heap0, users0, n, primeVars,
                   userVars, mainVars, out>>

\* line 12, and the assignment of line 42 when main called
FibReturn ==
    /\ pc = "fib_loop"
    /\ ~(fib_i < RangeLen(n))
    /\ retFn' = "fibonacci"
    /\ ret' = sequence
    /\ m_fib' = IF entry = "main" THEN sequence ELSE m_fib
    /\ pc' = After("main_print_fib")
    /\ UNCHANGED <<ctlVars, heap, heap0, users0, fibVars, primeVars, userVars,
                   m_primes, m_users, processed, print_i, total, out>>

\* ---------------------------------------------------------- find_primes
\* line 17 and the start of range(2, limit + 1)
EnterFindPrimes(arg) ==
    /\ limit' = arg
    /\ primes' = <<>>
    /\ num' = 2
    /\ is_prime' = FALSE
    /\ div_i' = 0
    /\ pc' = "primes_outer"

CallFindPrimes ==
    /\ pc = "start" /\ entry = "find_primes"
    /\ EnterFindPrimes(limit)
    /\ UNCHANGED <<ctlVars, retFn, ret, heap, heap0, users0, fibVars, userVars,
                   mainVars, out>>

\* lines 18-19: the next candidate, and the start of the divisor range
PrimesOuter ==
    /\ pc = "primes_outer"
    /\ num < limit + 1
    /\ is_prime' = TRUE
    /\ div_i' = 2
    /\ pc' = "primes_inner"
    /\ UNCHANGED <<ctlVars, retFn, ret, heap, heap0, users0, fibVars, limit, primes,
                   num, userVars, mainVars, out>>

\* lines 20-23: one trial division
PrimesInner ==
    /\ pc = "primes_inner"
    /\ div_i < TrialStop(num)
    /\ IF num % div_i = 0
         THEN /\ is_prime' = FALSE
              /\ pc' = "primes_after"
              /\ UNCHANGED div_i
         ELSE /\ div_i' = div_i + 1
              /\ UNCHANGED <<is_prime, pc>>
    /\ UNCHANGED <<ctlVars, retFn, ret, heap, heap0, users0, fibVars, limit, primes,
                   num, userVars, mainVars, out>>

\* line 20: the divisor range is exhausted
PrimesInnerEnd ==
    /\ pc = "primes_inner"
    /\ ~(div_i < TrialStop(num))
    /\ pc' = "primes_after"
    /\ UNCHANGED <<ctlVars, retFn, ret, heap, heap0, users0, fibVars, primeVars,
                   userVars, mainVars, out>>

\* lines 24-25, then the next element of the outer range
PrimesAfter ==
    /\ pc = "primes_after"
    /\ primes' = IF is_prime THEN Append(primes, num) ELSE primes
    /\ num' = num + 1
    /\ pc' = "primes_outer"
    /\ UNCHANGED <<ctlVars, retFn, ret, heap, heap0, users0, fibVars, limit,
                   is_prime, div_i, userVars, mainVars, out>>

\* line 26, and the assignment of line 46 when main called
PrimesReturn ==
    /\ pc = "primes_outer"
    /\ ~(num < limit + 1)
    /\ retFn' = "find_primes"
    /\ ret' = primes
    /\ m_primes' = IF entry = "main" THEN primes ELSE m_primes
    /\ pc' = After("main_print_primes")
    /\ UNCHANGED <<ctlVars, heap, heap0, users0, fibVars, primeVars, userVars,
                   m_fib, m_users, processed, print_i, total, out>>

\* -------------------------------------------------------- process_users
\* line 31 and the start of the iteration over users
EnterProcessUsers(arg) ==
    /\ users' = arg
    /\ results' = <<>>
    /\ idx' = 1
    /\ heap0' = heap
    /\ users0' = arg
    /\ pc' = "users_loop"

CallProcessUsers ==
    /\ pc = "start" /\ entry = "process_users"
    /\ EnterProcessUsers(users)
    /\ UNCHANGED <<ctlVars, retFn, ret, heap, fibVars, primeVars, mainVars,
                   out>>

\* lines 32-36: one iteration; a missing key raises and ends the run
UsersLoop ==
    /\ pc = "users_loop"
    /\ idx <= Len(users)
    /\ LET user == heap[users[idx]]
           name == Lookup(user, "name")
           age == Lookup(user, "age")
       IN IF ~name.ok
            THEN /\ err' = name.key
                 /\ pc' = "raised"
                 /\ UNCHANGED <<heap, results, idx>>
          ELSE IF ~age.ok
            THEN /\ err' = age.key
                 /\ pc' = "raised"
                 /\ UNCHANGED <<heap, results, idx>>
          ELSE LET new == NewRecord(heap, users[idx], name.val, age.val,
                                    Status(age.val))
               IN /\ heap' = new.heap
                  /\ results' = AppendResult(results, new.id)
                  /\ idx' = idx + 1
                  /\ UNCHANGED <<err, pc>>
    /\ UNCHANGED <<entry, retFn, ret, heap0, users0, fibVars, primeVars, users,
                   mainVars, out>>

\* line 37, and the assignment of line 55 when main called
UsersReturn ==
    /\ pc = "users_loop"
    /\ ~(idx <= Len(users))
    /\ retFn' = "process_users"
    /\ ret' = results
    /\ processed' = IF entry = "main" THEN results ELSE processed
    /\ print_i' = 1
    /\ pc' = After("main_print_users")
    /\ UNCHANGED <<ctlVars, heap, heap0, users0, fibVars, primeVars, userVars,
                   m_fib, m_primes, m_users, total, out>>

\* ----------------------------------------------------------------- main
\* line 42: fib = fibonacci(10)
MainCallFib ==
    /\ pc = "start" /\ entry = "main"
    /\ EnterFibonacci(MainFibN)
    /\ UNCHANGED <<ctlVars, retFn, ret, heap, heap0, users0, primeVars, userVars,
                   mainVars, out>>

\* line 43
MainPrintFib ==
    /\ pc = "main_print_fib"
    /\ out' = Append(out, FibLine(m_fib))
    /\ pc' = "main_primes"
    /\ UNCHANGED <<ctlVars, retFn, ret, heap, heap0, users0, fibVars, primeVars,
                   userVars, mainVars>>

\* line 46: primes = find_primes(30)
MainCallPrimes ==
    /\ pc = "main_primes"
    /\ EnterFindPrimes(MainLimit)
    /\ UNCHANGED <<ctlVars, retFn, ret, heap, heap0, users0, fibVars, userVars,
                   mainVars, out>>

\* line 47
MainPrintPrimes ==
    /\ pc = "main_print_primes"
    /\ out' = Append(out, PrimesLine(m_primes))
    /\ pc' = "main_users"
    /\ UNCHANGED <<ctlVars, retFn, ret, heap, heap0, users0, fibVars, primeVars,
                   userVars, mainVars>>

\* lines 50-54: the literal list allocates its three dicts
MainBuildUsers ==
    /\ pc = "main_users"
    /\ heap' = heap \o MainUsers
    /\ m_users' = [k \in 1..Len(MainUsers) |-> Len(heap) + k]
    /\ pc' = "main_process"
    /\ UNCHANGED <<ctlVars, retFn, ret, heap0, users0, fibVars, primeVars, userVars,
                   m_fib, m_primes, processed, print_i, total, out>>

\* line 55: processed = process_users(users)
MainCallProcess ==
    /\ pc = "main_process"
    /\ EnterProcessUsers(m_users)
    /\ UNCHANGED <<ctlVars, retFn, ret, heap, fibVars, primeVars, mainVars,
                   out>>

\* lines 56-57: one iteration of the printing loop
MainPrintUser ==
    /\ pc = "main_print_users"
    /\ print_i <= Len(processed)
    /\ out' = Append(out, UserLine(heap[processed[print_i]]))
    /\ print_i' = print_i + 1
    /\ UNCHANGED <<ctlVars, pc, retFn, ret, heap, heap0, users0, fibVars, primeVars,
                   userVars, m_fib, m_primes, m_users, processed, total>>

\* line 59, when the printing loop is exhausted
MainTotal ==
    /\ pc = "main_print_users"
    /\ ~(print_i <= Len(processed))
    /\ total' = Total(m_fib, m_primes)
    /\ pc' = "main_print_total"
    /\ UNCHANGED <<ctlVars, retFn, ret, heap, heap0, users0, fibVars, primeVars,
                   userVars, m_fib, m_primes, m_users, processed, print_i,
                   out>>

\* line 60, and the normal end of the program
MainPrintTotal ==
    /\ pc = "main_print_total"
    /\ out' = Append(out, TotalLine(total))
    /\ pc' = "done"
    /\ UNCHANGED <<ctlVars, retFn, ret, heap, heap0, users0, fibVars, primeVars,
                   userVars, mainVars>>

Next ==
    \/ CallFibonacci \/ FibLoop \/ FibReturn
    \/ CallFindPrimes \/ PrimesOuter \/ PrimesInner \/ PrimesInnerEnd
    \/ PrimesAfter \/ PrimesReturn
    \/ CallProcessUsers \/ UsersLoop \/ UsersReturn
    \/ MainCallFib \/ MainPrintFib \/ MainCallPrimes \/ MainPrintPrimes
    \/ MainBuildUsers \/ MainCallProcess \/ MainPrintUser \/ MainTotal
    \/ MainPrintTotal

Spec == Init /\ [][Next]_vars

\* The interpreter runs the single thread until the program ends.
FairSpec == Spec /\ WF_vars(Next)

\* ======================================================================
\* Properties
\* ======================================================================

\* A prime: an integer greater than 1 with no positive divisor other than 1
\* and itself.
IsPrime(p) == p > 1 /\ \A d \in 1..p : (p % d = 0) => d \in {1, p}

Elems(s) == {s[k] : k \in 1..Len(s)}

StrictlyIncreasing(s) == \A k \in 1..(Len(s) - 1) : s[k] < s[k + 1]

\* process_users has been entered (heap0 and users0 are set).
InProcessUsers == pc \in {"users_loop", "raised"} \/ retFn = "process_users"

\* The positions of the input list whose record lacks name or age.
Lacking ==
    {k \in 1..Len(users0) : ~({"name", "age"} \subseteq DOMAIN heap0[users0[k]])}

FirstLacking == CHOOSE k \in Lacking : \A m \in Lacking : k <= m

\* C1: for n >= 0, fibonacci(n) returns a list of length n whose first
\* element is 0, whose second is 1, and in which every later element is the
\* sum of the two before it.
C1_FibonacciList ==
    (retFn = "fibonacci" /\ n >= 0) =>
        /\ Len(ret) = n
        /\ (n >= 1 => ret[1] = 0)
        /\ (n >= 2 => ret[2] = 1)
        /\ \A k \in 3..Len(ret) : ret[k] = ret[k - 1] + ret[k - 2]

C1_Witness ==
    /\ entry = "fibonacci" /\ retFn = "fibonacci"
    /\ n >= 8 /\ ret[8] = 13

\* C2: for limit >= 0, find_primes(limit) returns a strictly increasing list
\* holding exactly the primes p with 2 <= p <= limit, empty when limit < 2;
\* a candidate is accepted only after trial division by every i from 2 up to
\* the integer square root of the candidate.
C2_PrimesExact ==
    /\ (retFn = "find_primes" /\ limit >= 0) =>
          /\ StrictlyIncreasing(ret)
          /\ Elems(ret) = {p \in 2..limit : IsPrime(p)}
          /\ (limit < 2 => ret = <<>>)
    /\ (pc = "primes_after" /\ is_prime) =>
          /\ (div_i - 1) * (div_i - 1) <= num
          /\ div_i * div_i > num
    /\ (pc = "primes_after" /\ ~is_prime) => div_i * div_i <= num

C2_Witness ==
    /\ entry = "find_primes" /\ retFn = "find_primes"
    /\ limit >= 25
    /\ Len(ret) = 9 /\ ret[9] = 23

\* C3: every record process_users classifies gets exactly one status of
\* minor, adult, senior, decided by its age alone: senior iff age >= 60,
\* adult iff 18 <= age < 60, minor iff age < 18 (negative ages included).
C3_StatusByAge ==
    InProcessUsers =>
        \A k \in 1..Len(results) :
            LET r == heap[results[k]] IN
            /\ r["status"] \in {"minor", "adult", "senior"}
            /\ (r["status"] = "senior") <=> (r["age"] >= 60)
            /\ (r["status"] = "adult") <=> (18 <= r["age"] /\ r["age"] < 60)
            /\ (r["status"] = "minor") <=> (r["age"] < 18)

C3_Witness ==
    /\ entry = "process_users" /\ retFn = "process_users"
    /\ Len(ret) = 2
    /\ heap[ret[1]]["age"] = 60 /\ heap[ret[1]]["status"] = "senior"
    /\ heap[ret[2]]["age"] < 0 /\ heap[ret[2]]["status"] = "minor"

\* C4: on a list of well-formed records process_users returns a list of the
\* same length whose k-th record carries the name and the age of the k-th
\* input record.
C4_OneToOne ==
    /\ (InProcessUsers /\ Lacking = {}) => pc # "raised"
    /\ retFn = "process_users" =>
          /\ Len(ret) = Len(users0)
          /\ \A k \in 1..Len(ret) :
                /\ heap[ret[k]]["name"] = heap0[users0[k]]["name"]
                /\ heap[ret[k]]["age"] = heap0[users0[k]]["age"]

C4_Witness ==
    /\ entry = "process_users" /\ retFn = "process_users"
    /\ Len(ret) = 2
    /\ heap0[users0[1]]["name"] = "Bob" /\ heap0[users0[2]]["name"] = "Alice"
    /\ heap0[users0[1]]["age"] # heap0[users0[2]]["age"]

\* C5: when a record of the list lacks name or age, process_users ends in
\* the missing-field error at the first such record: nothing after it is
\* classified and no list, not even a partial one, is returned.
C5_State ==
    (InProcessUsers /\ Lacking # {}) =>
        /\ pc \in {"users_loop", "raised"}
        /\ retFn # "process_users"
        /\ idx <= FirstLacking
        /\ Len(results) = idx - 1
        /\ (pc = "raised" =>
              /\ idx = FirstLacking
              /\ err \in {"name", "age"}
              /\ err \notin DOMAIN heap0[users0[idx]])
        /\ (pc = "users_loop" => err = "none")

C5_Step ==
    (pc = "users_loop" /\ Lacking # {} /\ idx = FirstLacking) => pc' = "raised"

C5_MissingFieldRaises == []C5_State /\ [][C5_Step]_vars

C5_Witness ==
    /\ entry = "process_users" /\ pc = "raised"
    /\ Len(users0) = 2 /\ idx = 2 /\ Len(results) = 1
    /\ err = "age"

MainDone == entry = "main" /\ pc = "done"

\* C6 as stated: in the run of main the Fibonacci terms sum to 88, the primes
\* found sum to 159 and the Total line shows 247.
C6_AsStated ==
    MainDone =>
        /\ Sum(m_fib) = 88
        /\ Sum(m_primes) = 159
        /\ out[Len(out)] = TotalLine(247)

\* C6 amended: in the run of main the Fibonacci terms sum to 88, the primes
\* found sum to 129 and the Total line shows 217.
C6_Sums ==
    MainDone =>
        /\ Sum(m_fib) = 88
        /\ Sum(m_primes) = 129
        /\ total = 217
        /\ out[Len(out)] = TotalLine(217)

C6_Witness ==
    /\ MainDone
    /\ m_fib = <<0, 1, 1, 2, 3, 5, 8, 13, 21, 34>>
    /\ m_primes = <<2, 3, 5, 7, 11, 13, 17, 19, 23, 29>>
    /\ out[Len(out)]["label"] = "Total: "

\* The labels main writes, in order, and the three user lines.
ExpectedLabels ==
    <<"Fibonacci(10): ", "Primes up to 30: ", "  ", "  ", "  ", "Total: ">>

ExpectedUsers ==
    << <<"Alice", "adult">>, <<"Bob", "minor">>, <<"Charlie", "senior">> >>

FibPcs == {"fib_loop", "main_print_fib"}
PrimesPcs == {"primes_outer", "primes_inner", "primes_after",
              "main_print_primes"}
UsersPcs == {"main_process", "users_loop"}

\* C7: main writes the Fibonacci line, then the primes line, then one line
\* per user in input order (Alice: adult, Bob: minor, Charlie: senior), then
\* the Total line, each once; each computation has returned before the next
\* one is entered.
C7_OutputOrder ==
    entry = "main" =>
        /\ Len(out) <= Len(ExpectedLabels)
        /\ \A k \in 1..Len(out) : out[k]["label"] = ExpectedLabels[k]
        /\ \A k \in 3..5 : k <= Len(out) => out[k]["text"] = ExpectedUsers[k - 2]
        /\ (pc = "start" => out = <<>> /\ retFn = "none")
        /\ (pc \in FibPcs => out = <<>>)
        /\ (pc = "fib_loop" => retFn = "none")
        /\ (pc \in PrimesPcs \cup {"main_primes"} =>
              Len(out) = 1 /\ out[1]["text"] = m_fib)
        /\ (pc \in PrimesPcs \ {"main_print_primes"} => retFn = "fibonacci")
        /\ (pc \in UsersPcs \cup {"main_users"} =>
              Len(out) = 2 /\ out[2]["text"] = m_primes)
        /\ (pc \in UsersPcs => retFn = "find_primes")
        /\ (pc = "main_print_users" =>
              retFn = "process_users" /\ Len(out) = 2 + (print_i - 1))
        /\ (pc = "main_print_total" => Len(out) = 5)
        /\ (pc = "done" => Len(out) = 6)

C7_Witness ==
    /\ MainDone
    /\ Len(out) = 6
    /\ out[4]["text"] = <<"Bob", "minor">>

\* C8: with its literal input main never reaches the missing-field error,
\* and it terminates: the Total line is eventually written.
C8_MainTerminates ==
    /\ [](entry = "main" => (pc # "raised" /\ err = "none"))
    /\ (entry = "main") ~>
          (pc = "done" /\ out # <<>> /\ out[Len(out)]["label"] = "Total: ")

C8_Witness ==
    /\ MainDone
    /\ err = "none"
    /\ out[Len(out)]["label"] = "Total: "
    /\ retFn = "process_users" /\ Len(processed) = 3

\* C9: process_users leaves its input as it was, whether it returns or
\* raises: the list has the same elements, every input record has the same
\* fields and values (no status added), and the classified records are new
\* records, none of them an input record.
C9_InputUnchanged ==
    InProcessUsers =>
        /\ users = users0
        /\ Len(heap) >= Len(heap0)
        /\ \A k \in 1..Len(heap0) : heap[k] = heap0[k]
        /\ \A k \in 1..Len(results) :
              /\ results[k] \notin Elems(users0)
              /\ results[k] > Len(heap0)

C9_Witness ==
    /\ entry = "process_users" /\ pc = "raised"
    /\ Len(results) = 1
    /\ "status" \notin DOMAIN heap[users0[1]]
    /\ "status" \in DOMAIN heap[results[1]]

\* C10: for n < 0 fibonacci runs no loop iteration and returns the empty
\* list, raising nothing.
C10_NegativeCount ==
    (n < 0 /\ (pc = "fib_loop" \/ retFn = "fibonacci")) =>
        /\ fib_i = 0
        /\ sequence = <<>>
        /\ err = "none"
        /\ (retFn = "fibonacci" => ret = <<>> /\ pc = "done")

C10_Witness ==
    /\ entry = "fibonacci" /\ retFn = "fibonacci"
    /\ n = -2 /\ ret = <<>> /\ pc = "done"

====
